---- MODULE Spec2Model ----
(***************************************************************************)
(* Fantasy-football connector: the snapshot cache (fetch_bootstrap_static),*)
(* the roster resolver (get_elements_from_team), the per-player fetcher    *)
(* and fan-out aggregator (ElementSummaryFetcher), the team batch          *)
(* orchestrator (process/element_summary.py) and the HTTP endpoint that    *)
(* validates a request and answers for the run (app.py, models.py).        *)
(*                                                                         *)
(* Python dicts are functions whose DOMAIN is the set of keys present;     *)
(* Python lists are sequences.  An optional value is a sequence of length  *)
(* zero (None / absent) or one.                                            *)
(***************************************************************************)
EXTENDS Integers, Sequences, FiniteSets, TLC

\* ------------------------------------------------------------------ bounds
\* longest team_ids list handed to process_many
MaxJobs == 2
\* largest max_workers of the thread pool
MaxWorkers == 2
\* longest player_ids list handed to fetch_many
MaxPlayers == 3
\* number of get_snapshot calls each concurrent caller makes
MaxCalls == 2
\* longest elements collection drawn for the roster resolver
MaxElements == 3
\* number of storage uploads that may fail during one run
MaxSinkFaults == 1

VARIABLES
    \* --- snapshot cache (lru_cache of __fetch_bootstrap_static_internal)
    cache,       \* <<>> when cold, <<snapshot>> when warm
    snapPc,      \* per thread: position inside fetch_bootstrap_static
    snapForce,   \* per thread: force_refresh of the call in progress
    snapRes,     \* per thread: <<snapshot>> returned by the last call
    snapFetches, \* per thread: upstream requests issued by the current call
    snapClears,  \* per thread: cache_clear() calls made by the current call
    snapGot,     \* per thread: <<snapshot>> its own upstream fetch produced
    snapLog,     \* per thread: messages logged by the current call
    snapExc,     \* per thread: class of the exception the current call raised
    calls,       \* per thread: get_snapshot calls started so far
    \* --- fan-out aggregator (ElementSummaryFetcher)
    player_ids,  \* the list given to the fetcher
    fmPc,        \* "off", "init", "gather", "done", "raised"
    responses,   \* per index: <<>> while pending, <<response>> once settled
    results,     \* per index: <<>> while pending, <<fetch_player result>>
    batch,       \* <<>> or <<flatten_results(...)>>
    \* --- roster resolver and element filter (pure functions)
    pureIn,      \* <<>> or <<[snapshot, team_id, element_ids, payload]>>
    pureOut,     \* [roster, selected, tables]: <<>> or <<result>> of each
    \* --- team batch orchestrator
    runPc,       \* "off", "idle", "rejected", "resolve", "raised", "pool",
                 \* "load", "load_raised", "done"
    team_ids,    \* the team list of the run (after resolution)
    element_ids, \* <<>> for None, <<list>> for a filter
    max_workers,
    jobPc,       \* per job: "queued", "snapshot", "upload", "done"
    jobIds,      \* per job: the player ids handed to the fetcher
    jobWarn,     \* per job: the ids reported by the invalid-elements warning
    jobData,     \* per job: <<>> or <<batch>>
    jobNext,     \* per job: index in TableOrder of the next upload (0: none)
    jobWrote,    \* per job: the table names uploaded, in order
    jobLog,      \* per job: set of messages the job logged
    sink,        \* the bucket: object name -> records of the object
    loads,       \* table ids handed to the warehouse loader, in order
    warehouse,   \* table id -> names of the objects its last load ingested
    sinkFaults,  \* uploads that have raised so far
    response     \* <<>> or <<[status, message]>>: the endpoint's answer

cacheVars == <<cache, snapPc, snapForce, snapRes, snapFetches, snapClears,
               snapGot, snapLog, snapExc, calls>>
fetchVars == <<player_ids, fmPc, responses, results, batch>>
pureVars  == <<pureIn, pureOut>>
runVars   == <<runPc, team_ids, element_ids, max_workers, jobPc, jobIds,
               jobWarn, jobData, jobNext, jobWrote, jobLog, sink, loads,
               warehouse,
               sinkFaults, response>>
vars == <<cacheVars, fetchVars, pureVars, runVars>>

\* ------------------------------------------------------------ dict helper
\* dict.get(key, [])
Get(d, k) == IF k \in DOMAIN d THEN d[k] ELSE <<>>

RECURSIVE SeqsUpTo(_, _)
SeqsUpTo(S, n) ==
    IF n = 0 THEN {<<>>}
    ELSE LET shorter == SeqsUpTo(S, n - 1)
         IN  shorter \cup {Append(s, x) : s \in shorter, x \in S}

\* threads that may call the snapshot cache: 0 is the main thread, j >= 1 is
\* the pool thread running job j (or an independent caller)
Threads == 0..(MaxJobs + 1)

\* ------------------------------------------------- upstream: roster source
\* bootstrap-static payloads the upstream may answer with
PayloadA ==
    [elements |-> << [id |-> 1, team |-> 1], [id |-> 2, team |-> 1],
                     [id |-> 3, team |-> 2] >>,
     teams |-> << [id |-> 1], [id |-> 2] >>,
     events |-> << [id |-> 1] >>,
     element_types |-> << [id |-> 1] >>,
     total_players |-> << 7 >>]

\* a later payload: player 2 has moved to team 2, the payload lacks "events"
PayloadB ==
    [elements |-> << [id |-> 1, team |-> 1], [id |-> 2, team |-> 2],
                     [id |-> 3, team |-> 2] >>,
     teams |-> << [id |-> 1], [id |-> 2] >>,
     element_types |-> << [id |-> 1] >>,
     game_settings |-> << 9 >>]

\* an upstream answer: an HTTP status with a body that decodes to a payload
\* or does not decode as JSON, or a transport failure (status 0: requests.get
\* raised a ConnectionError)
SnapshotAnswers ==
    { [status |-> 200, decodes |-> TRUE, json |-> PayloadA],
      [status |-> 200, decodes |-> TRUE, json |-> PayloadB],
      [status |-> 200, decodes |-> FALSE, json |-> <<>>],
      [status |-> 204, decodes |-> FALSE, json |-> <<>>],
      [status |-> 503, decodes |-> FALSE, json |-> <<>>],
      [status |-> 500, decodes |-> FALSE, json |-> <<>>],
      [status |-> 0, decodes |-> FALSE, json |-> <<>>] }

tables_to_extract == <<"elements", "teams", "events", "element_types">>

\* variant: the payload is returned as it came
extract_tables_asis(data) == data

\* BootstrapStaticFetcher.extract_tables
extract_tables(data) ==
    [t \in {tables_to_extract[i] : i \in 1..Len(tables_to_extract)}
        |-> Get(data, t)]

\* response.raise_for_status() raises an HTTPError for 4xx and 5xx statuses
\* and returns for every other status
raise_for_status(status) == status >= 400 /\ status < 600

\* exception classes that are requests.exceptions.RequestException
RequestExceptions == {"ConnectionError", "HTTPError", "JSONDecodeError"}

\* exception classes that are ValueError (json.JSONDecodeError and pydantic's
\* ValidationError derive from it)
ValueErrors == {"JSONDecodeError", "ValidationError", "ValueError"}

\* class of the exception BootstrapStaticFetcher.run raises for answer a, ""
\* when it returns: requests.get raises on a transport failure; on status 200
\* response.json() raises when the body does not decode; on another status
\* raise_for_status() raises or returns, and when it returns fetch falls off
\* its end with None, on which extract_tables raises AttributeError
FetchOutcome(a) ==
    IF a.status = 0 THEN "ConnectionError"
    ELSE IF a.status = 200
         THEN IF a.decodes THEN "" ELSE "JSONDecodeError"
    ELSE IF raise_for_status(a.status) THEN "HTTPError"
    ELSE "AttributeError"

\* messages BootstrapStaticFetcher.fetch logs for answer a: the 503 message in
\* the else branch, and the except clause's message for a RequestException
FetchLog(a) ==
    (IF a.status = 503 THEN {"Service Unavailable (503)"} ELSE {})
    \cup (IF FetchOutcome(a) \in RequestExceptions
          THEN {"An error occurred"} ELSE {})

\* ---------------------------------------------------------- snapshot cache
\* entry of fetch_bootstrap_static(force_refresh) on thread t
CallSnapshot(t, force) ==
    /\ snapPc[t] = "idle"
    /\ snapPc' = [snapPc EXCEPT ![t] = IF force THEN "clear" ELSE "lookup"]
    /\ snapForce' = [snapForce EXCEPT ![t] = force]
    /\ snapRes' = [snapRes EXCEPT ![t] = <<>>]
    /\ snapFetches' = [snapFetches EXCEPT ![t] = 0]
    /\ snapClears' = [snapClears EXCEPT ![t] = 0]
    /\ snapGot' = [snapGot EXCEPT ![t] = <<>>]
    /\ snapLog' = [snapLog EXCEPT ![t] = {}]
    /\ snapExc' = [snapExc EXCEPT ![t] = ""]
    /\ calls' = [calls EXCEPT ![t] = @ + 1]
    /\ UNCHANGED cache

\* the thread has consumed the outcome of its call
SnapshotConsumed(t) ==
    /\ snapPc' = [snapPc EXCEPT ![t] = "idle"]
    /\ UNCHANGED <<cache, snapForce, snapRes, snapFetches, snapClears,
                   snapGot, snapLog, snapExc, calls>>

\* __fetch_bootstrap_static_internal.cache_clear()
CacheClear(t) ==
    /\ snapPc[t] = "clear"
    /\ cache' = <<>>
    /\ snapClears' = [snapClears EXCEPT ![t] = @ + 1]
    /\ snapPc' = [snapPc EXCEPT ![t] = "lookup"]
    /\ UNCHANGED <<snapForce, snapRes, snapFetches, snapGot, snapLog, snapExc,
                   calls>>
    /\ UNCHANGED <<fetchVars, pureVars, runVars>>

\* variant: the wrapped function is called on every lookup
CacheLookupUncached(t) ==
    /\ snapPc[t] = "lookup"
    /\ snapFetches' = [snapFetches EXCEPT ![t] = @ + 1]
    /\ snapPc' = [snapPc EXCEPT ![t] = "fetching"]
    /\ UNCHANGED <<cache, snapRes, snapForce, snapClears, snapGot, snapLog,
                   snapExc, calls>>
    /\ UNCHANGED <<fetchVars, pureVars, runVars>>

\* the lru_cache wrapper looks the key up: a hit returns the cached value, a
\* miss calls the wrapped function, which issues the upstream request
CacheLookup(t) ==
    /\ snapPc[t] = "lookup"
    /\ IF cache # <<>>
       THEN /\ snapRes' = [snapRes EXCEPT ![t] = cache]
            /\ snapPc' = [snapPc EXCEPT ![t] = "ret"]
            /\ UNCHANGED snapFetches
       ELSE /\ snapFetches' = [snapFetches EXCEPT ![t] = @ + 1]
            /\ snapPc' = [snapPc EXCEPT ![t] = "fetching"]
            /\ UNCHANGED snapRes
    /\ UNCHANGED <<cache, snapForce, snapClears, snapGot, snapLog, snapExc,
                   calls>>
    /\ UNCHANGED <<fetchVars, pureVars, runVars>>

\* the upstream request of thread t settles with answer a: when
\* BootstrapStaticFetcher.run returns, the wrapper stores extract_tables(json)
\* in the cache and returns it; when it raises, nothing is stored
FetchSettle(t, a) ==
    /\ snapPc[t] = "fetching"
    /\ snapLog' = [snapLog EXCEPT ![t] = FetchLog(a)]
    /\ snapExc' = [snapExc EXCEPT ![t] = FetchOutcome(a)]
    /\ IF FetchOutcome(a) = ""
       THEN /\ cache' = << extract_tables(a.json) >>
            /\ snapRes' = [snapRes EXCEPT ![t] = << extract_tables(a.json) >>]
            /\ snapGot' = [snapGot EXCEPT ![t] = << extract_tables(a.json) >>]
            /\ snapPc' = [snapPc EXCEPT ![t] = "ret"]
       ELSE /\ snapPc' = [snapPc EXCEPT ![t] = "raised"]
            /\ UNCHANGED <<cache, snapRes, snapGot>>
    /\ UNCHANGED <<snapForce, snapFetches, snapClears, calls>>
    /\ UNCHANGED <<fetchVars, pureVars, runVars>>

\* ----------------------------------------- initial values of the components
InitCacheVars(c) ==
    /\ cache = c
    /\ snapPc = [t \in Threads |-> "idle"]
    /\ snapForce = [t \in Threads |-> FALSE]
    /\ snapRes = [t \in Threads |-> <<>>]
    /\ snapFetches = [t \in Threads |-> 0]
    /\ snapClears = [t \in Threads |-> 0]
    /\ snapGot = [t \in Threads |-> <<>>]
    /\ snapLog = [t \in Threads |-> {}]
    /\ snapExc = [t \in Threads |-> ""]
    /\ calls = [t \in Threads |-> 0]

InitFetchOff ==
    /\ player_ids = <<>>
    /\ fmPc = "off"
    /\ responses = <<>>
    /\ results = <<>>
    /\ batch = <<>>

InitPureOff ==
    /\ pureIn = <<>>
    /\ pureOut = [roster |-> <<>>, selected |-> <<>>, tables |-> <<>>]

InitRunOff ==
    /\ runPc = "off"
    /\ team_ids = <<>>
    /\ element_ids = <<>>
    /\ max_workers = 1
    /\ jobPc = <<>>
    /\ jobIds = <<>>
    /\ jobWarn = <<>>
    /\ jobData = <<>>
    /\ jobNext = <<>>
    /\ jobWrote = <<>>
    /\ jobLog = <<>>
    /\ sink = <<>>
    /\ loads = <<>>
    /\ warehouse = <<>>
    /\ sinkFaults = 0
    /\ response = <<>>

\* --------------------------------------------- upstream: player detail source
\* bodies of element-summary answers (raw records are dicts)
BodyFull ==
    [fixtures |-> << [event |-> 1] >>,
     history |-> << [round |-> 1], [round |-> 2] >>,
     history_past |-> << [season |-> 2020] >>]
BodyEmpty == [fixtures |-> <<>>, history |-> <<>>, history_past |-> <<>>]
\* a body that lacks the fixtures and history_past keys
BodyPartial == [history |-> << [round |-> 3] >>]
NoBody == [none |-> <<>>]

\* an answer of the per-player endpoint: exc = <<>> and an HTTP status with a
\* body, or exc = <<m>>: session.get (status 0) or response.json() (status
\* 200) raised an exception whose str() is m
PlayerAnswers ==
    { [status |-> 200, exc |-> <<>>, json |-> BodyFull],
      [status |-> 200, exc |-> <<>>, json |-> BodyEmpty],
      [status |-> 200, exc |-> <<>>, json |-> BodyPartial],
      [status |-> 404, exc |-> <<>>, json |-> NoBody],
      [status |-> 0, exc |-> << "Cannot connect to host" >>, json |-> NoBody],
      [status |-> 0, exc |-> << "" >>, json |-> NoBody],
      [status |-> 200, exc |-> << "Attempt to decode JSON" >>, json |-> NoBody] }

\* ------------------------------------------------------- per-player fetcher
\* [{'element': player_id, 'data': f} for f in raw]
Tag(player_id, raw) ==
    [i \in 1..Len(raw) |-> [element |-> player_id, data |-> raw[i]]]

\* the dict returned on failure
FailureResult(player_id, msg) ==
    [player_id |-> player_id, fixtures |-> <<>>, history |-> <<>>,
     history_past |-> <<>>, error |-> msg]

\* TryFetchPlayer as the superseded copy fetch_data/element_summary.py has
\* it: the history records are passed through without the element tag
TryFetchPlayerUntaggedHistory(player_id, a) ==
    IF a.exc # <<>> THEN [exc |-> a.exc[1]]
    ELSE IF a.status = 200
    THEN [ret |-> [player_id |-> player_id,
                   fixtures |-> Tag(player_id, Get(a.json, "fixtures")),
                   history |-> Get(a.json, "history"),
                   history_past |->
                       Tag(player_id, Get(a.json, "history_past"))]]
    ELSE [ret |-> FailureResult(player_id, "HTTP " \o ToString(a.status))]

\* the body of the try block of fetch_player: [ret |-> dict] when it returns,
\* [exc |-> str(e)] when an exception is raised inside it
TryFetchPlayer(player_id, a) ==
    IF a.exc # <<>> THEN [exc |-> a.exc[1]]
    ELSE IF a.status = 200
    THEN [ret |-> [player_id |-> player_id,
                   fixtures |-> Tag(player_id, Get(a.json, "fixtures")),
                   history |-> Tag(player_id, Get(a.json, "history")),
                   history_past |->
                       Tag(player_id, Get(a.json, "history_past"))]]
    ELSE [ret |-> FailureResult(player_id, "HTTP " \o ToString(a.status))]

\* ExceptClause narrowed to "except aiohttp.ClientConnectionError": any other
\* exception of the try block escapes the coroutine
ExceptClauseNarrow(player_id, msg) ==
    IF msg = "Cannot connect to host"
    THEN FailureResult(player_id, msg)
    ELSE [raised |-> msg]

\* the except clause of fetch_player: "except Exception" catches every
\* exception of the try block; [raised |-> m] stands for one that escapes
ExceptClause(player_id, msg) == FailureResult(player_id, msg)

\* ElementSummaryFetcher.fetch_player
fetch_player(player_id, a) ==
    LET t == TryFetchPlayer(player_id, a)
    IN  IF "exc" \in DOMAIN t THEN ExceptClause(player_id, t.exc) ELSE t.ret

\* ------------------------------------------------------ fan-out aggregator
EmptyBatch ==
    [fixtures |-> <<>>, history |-> <<>>, history_past |-> <<>>,
     errors |-> <<>>]

\* FlattenStep with the test "if result.get('error')" (truthiness) in place
\* of "if 'error' in result" (key presence)
FlattenStepTruthy(acc, result) ==
    IF "error" \in DOMAIN result /\ result.error # ""
    THEN [acc EXCEPT !.errors =
             Append(@, [player_id |-> result.player_id,
                        error |-> result.error])]
    ELSE [acc EXCEPT !.fixtures = @ \o Get(result, "fixtures"),
                     !.history = @ \o Get(result, "history"),
                     !.history_past = @ \o Get(result, "history_past")]

\* one iteration of the loop of flatten_results
FlattenStep(acc, result) ==
    IF "error" \in DOMAIN result
    THEN [acc EXCEPT !.errors =
             Append(@, [player_id |-> result.player_id,
                        error |-> result.error])]
    ELSE [acc EXCEPT !.fixtures = @ \o Get(result, "fixtures"),
                     !.history = @ \o Get(result, "history"),
                     !.history_past = @ \o Get(result, "history_past")]

RECURSIVE FlattenFrom(_, _, _)
FlattenFrom(rs, i, acc) ==
    IF i > Len(rs) THEN acc
    ELSE FlattenFrom(rs, i + 1, FlattenStep(acc, rs[i]))

\* ElementSummaryFetcher.flatten_results
flatten_results(rs) == FlattenFrom(rs, 1, EmptyBatch)

\* a task whose coroutine raised
Raised(result) == "raised" \in DOMAIN result

\* fetch_all_players creates one fetch_player task per entry of player_ids
StartFetch ==
    /\ fmPc = "init"
    /\ fmPc' = "gather"
    /\ responses' = [i \in 1..Len(player_ids) |-> <<>>]
    /\ results' = [i \in 1..Len(player_ids) |-> <<>>]
    /\ UNCHANGED <<player_ids, batch>>
    /\ UNCHANGED <<cacheVars, pureVars, runVars>>

\* variant: the results are collected in completion order (as_completed),
\* each one taking the first free place of the result list
PlayerSettleCompletionOrder(i, a) ==
    /\ fmPc = "gather"
    /\ i \in 1..Len(player_ids)
    /\ responses[i] = <<>>
    /\ responses' = [responses EXCEPT ![i] = << a >>]
    /\ LET free == { m \in 1..Len(results) : results[m] = <<>> }
           k == CHOOSE m \in free : \A n \in free : m <= n
       IN  results' = [results EXCEPT
                          ![k] = << fetch_player(player_ids[i], a) >>]
    /\ UNCHANGED <<player_ids, fmPc, batch>>
    /\ UNCHANGED <<cacheVars, pureVars, runVars>>

\* the request of task i settles with answer a, in any order
PlayerSettle(i, a) ==
    /\ fmPc = "gather"
    /\ i \in 1..Len(player_ids)
    /\ responses[i] = <<>>
    /\ responses' = [responses EXCEPT ![i] = << a >>]
    /\ results' = [results EXCEPT ![i] = << fetch_player(player_ids[i], a) >>]
    /\ UNCHANGED <<player_ids, fmPc, batch>>
    /\ UNCHANGED <<cacheVars, pureVars, runVars>>

\* variant: the wait ends as soon as one task is done
\* (asyncio.wait with return_when=FIRST_COMPLETED), pending tasks are left
GatheredFirstCompleted ==
    /\ fmPc = "gather"
    /\ \/ player_ids = <<>>
       \/ \E i \in 1..Len(player_ids) : results[i] # <<>>
    /\ LET settled == SelectSeq(results, LAMBDA r : r # <<>>)
           rs == [i \in 1..Len(settled) |-> settled[i][1]]
       IN  IF \E i \in 1..Len(rs) : Raised(rs[i])
           THEN fmPc' = "raised" /\ UNCHANGED batch
           ELSE fmPc' = "done" /\ batch' = << flatten_results(rs) >>
    /\ UNCHANGED <<player_ids, responses, results>>
    /\ UNCHANGED <<cacheVars, pureVars, runVars>>

\* asyncio.gather returns the results in task order once every task is done
\* (or re-raises the exception of a task); run() then flattens them
Gathered ==
    /\ fmPc = "gather"
    /\ \A i \in 1..Len(player_ids) : results[i] # <<>>
    /\ LET rs == [i \in 1..Len(player_ids) |-> results[i][1]]
       IN  IF \E i \in 1..Len(rs) : Raised(rs[i])
           THEN fmPc' = "raised" /\ UNCHANGED batch
           ELSE fmPc' = "done" /\ batch' = << flatten_results(rs) >>
    /\ UNCHANGED <<player_ids, responses, results>>
    /\ UNCHANGED <<cacheVars, pureVars, runVars>>

PlayerPool == {1, 2}

InitFetch ==
    /\ player_ids \in SeqsUpTo(PlayerPool, MaxPlayers)
    /\ fmPc = "init"
    /\ responses = <<>>
    /\ results = <<>>
    /\ batch = <<>>
    /\ InitCacheVars(<<>>) /\ InitPureOff /\ InitRunOff

NextFetch ==
    \/ StartFetch
    \/ \E i \in 1..MaxPlayers, a \in PlayerAnswers : PlayerSettle(i, a)
    \/ Gathered

SpecFetch == InitFetch /\ [][NextFetch]_vars

\* the event loop runs every task it was given, every request that is pending
\* settles eventually, and gather resumes its awaiter once all are done
SpecFetchFair ==
    /\ SpecFetch
    /\ WF_vars(StartFetch)
    /\ \A i \in 1..MaxPlayers :
          WF_vars(\E a \in PlayerAnswers : PlayerSettle(i, a))
    /\ WF_vars(Gathered)

\* ---------------------------------------------------------- roster resolver
\* [element['id'] for element in elements[from..] if element["team"] == team_id]
RECURSIVE TeamElementsFrom(_, _, _)
TeamElementsFrom(elements, team_id, from) ==
    IF from > Len(elements) THEN <<>>
    ELSE IF elements[from].team = team_id
         THEN << elements[from].id >>
              \o TeamElementsFrom(elements, team_id, from + 1)
         ELSE TeamElementsFrom(elements, team_id, from + 1)

\* get_elements_from_team as the superseded copy process/bootstrap_static.py
\* has it: the empty result is returned instead of raising
get_elements_from_team_noraise(snapshot, team_id) ==
    [raised |-> FALSE,
     value |-> TeamElementsFrom(Get(snapshot, "elements"), team_id, 1)]

\* etl/process/bootstrap_static.py get_elements_from_team, on the snapshot
\* fetch_bootstrap_static() returned: raises ValueError when nothing matches
get_elements_from_team(snapshot, team_id) ==
    LET team_elements ==
            TeamElementsFrom(Get(snapshot, "elements"), team_id, 1)
    IN  IF team_elements = <<>>
        THEN [raised |-> TRUE, value |-> <<>>]
        ELSE [raised |-> FALSE, value |-> team_elements]

\* ------------------------------------- element filter of the team job
\* the keys of player_team_map, in insertion order (first occurrence)
RECURSIVE MapKeysFrom(_, _)
MapKeysFrom(elements, from) ==
    IF from > Len(elements) THEN <<>>
    ELSE IF \E j \in 1..(from - 1) : elements[j].id = elements[from].id
         THEN MapKeysFrom(elements, from + 1)
         ELSE << elements[from].id >> \o MapKeysFrom(elements, from + 1)

\* player_team_map = {element["id"]: element["team"] for element in elements}
\* (a later entry with the same id overwrites the earlier one)
player_team_map(elements) ==
    [p \in {elements[i].id : i \in 1..Len(elements)} |->
        LET last == CHOOSE i \in 1..Len(elements) :
                        /\ elements[i].id = p
                        /\ \A j \in (i + 1)..Len(elements) : elements[j].id # p
        IN  elements[last].team]

InList(x, list) == \E i \in 1..Len(list) : list[i] = x

\* [x for x in list[from..] if keep(x)] where keep(x) is
\* (x in map and map[x] in teams) = wanted
RECURSIVE FilterFrom(_, _, _, _, _)
FilterFrom(list, map, teams, wanted, from) ==
    IF from > Len(list) THEN <<>>
    ELSE LET x == list[from]
             belongs == x \in DOMAIN map /\ InList(map[x], teams)
         IN  IF belongs = wanted
             THEN << x >> \o FilterFrom(list, map, teams, wanted, from + 1)
             ELSE FilterFrom(list, map, teams, wanted, from + 1)

\* SelectPlayers whose filter keeps every requested id the snapshot knows,
\* without the test "player_team_map[player_id] in team_ids"
SelectPlayersAnyTeam(snapshot, teams, filter) ==
    LET elements == Get(snapshot, "elements")
        map == player_team_map(elements)
        known == [p \in DOMAIN map |-> teams[1]]
    IN  IF filter = <<>>
        THEN [ids |-> FilterFrom(MapKeysFrom(elements, 1), map, teams,
                                 TRUE, 1),
              warned |-> <<>>]
        ELSE [ids |-> FilterFrom(filter[1], known, teams, TRUE, 1),
              warned |-> FilterFrom(filter[1], known, teams, FALSE, 1)]

\* steps 2 and 3 of get_element_summary_for_teams: the ids handed to the
\* fetcher and the ids reported by the warning (<<>> when none is logged)
SelectPlayers(snapshot, teams, filter) ==
    LET elements == Get(snapshot, "elements")
        map == player_team_map(elements)
    IN  IF filter = <<>>
        THEN [ids |-> FilterFrom(MapKeysFrom(elements, 1), map, teams,
                                 TRUE, 1),
              warned |-> <<>>]
        ELSE [ids |-> FilterFrom(filter[1], map, teams, TRUE, 1),
              warned |-> FilterFrom(filter[1], map, teams, FALSE, 1)]

\* --------------------- specification: the resolver and the filter on inputs
ElementIdPool == {1, 2, 3}
TeamIdPool == {1, 2}

\* elements collections of a snapshot: identifiers are unique
ElementLists ==
    { s \in SeqsUpTo([id : ElementIdPool, team : TeamIdPool], MaxElements) :
        \A i, j \in 1..Len(s) : i # j => s[i].id # s[j].id }

\* element_ids arguments: None, or a list of requested identifiers
ElementFilters ==
    { <<>>, << <<>> >>, << <<2, 3, 99>> >>, << <<3, 1>> >>,
      << <<99>> >>, << <<2, 2>> >> }

\* get_elements_from_team(team_id) is called on the drawn snapshot
ResolveRoster ==
    /\ pureIn # <<>>
    /\ pureOut.roster = <<>>
    /\ pureOut' = [pureOut EXCEPT !.roster =
           << get_elements_from_team(pureIn[1].snapshot, pureIn[1].team_id) >>]
    /\ UNCHANGED pureIn
    /\ UNCHANGED <<cacheVars, fetchVars, runVars>>

\* get_element_summary_for_teams([team_id], element_ids) selects the players
SelectForTeam ==
    /\ pureIn # <<>>
    /\ pureOut.selected = <<>>
    /\ pureOut' = [pureOut EXCEPT !.selected =
           << SelectPlayers(pureIn[1].snapshot, << pureIn[1].team_id >>,
                            pureIn[1].element_ids) >>]
    /\ UNCHANGED pureIn
    /\ UNCHANGED <<cacheVars, fetchVars, runVars>>

\* BootstrapStaticFetcher.extract_tables is called on the drawn payload
ExtractTables ==
    /\ pureIn # <<>>
    /\ pureOut.tables = <<>>
    /\ pureOut' = [pureOut EXCEPT !.tables =
           << extract_tables(pureIn[1].payload) >>]
    /\ UNCHANGED pureIn
    /\ UNCHANGED <<cacheVars, fetchVars, runVars>>

\* payloads handed to extract_tables: the two upstream payloads, a payload
\* with none of the configured tables and the empty JSON object
Payloads == { PayloadA, PayloadB, [game_settings |-> << 9 >>], <<>> }

InitPure ==
    /\ \E els \in ElementLists, t \in 1..3, f \in ElementFilters,
          p \in Payloads :
          pureIn = << [snapshot |-> [elements |-> els], team_id |-> t,
                       element_ids |-> f, payload |-> p] >>
    /\ pureOut = [roster |-> <<>>, selected |-> <<>>, tables |-> <<>>]
    /\ InitCacheVars(<<>>) /\ InitFetchOff /\ InitRunOff

NextPure == ResolveRoster \/ SelectForTeam \/ ExtractTables

SpecPure == InitPure /\ [][NextPure]_vars

\* ------------------------------------------------- team batch orchestrator
destination_folder == "element_summary"

\* TableOrder restricted to the three data tables
TableOrderDataOnly == <<"fixtures", "history", "history_past">>

\* the iteration order of data.items(): the key order of the dict that
\* flatten_results returns
TableOrder == <<"fixtures", "history", "history_past", "errors">>

\* the tables fetch_and_upload_element_summary hands to the warehouse loader
LoadTables == <<"element_summary_fixtures", "element_summary_history",
                "element_summary_history_past">>

\* blob_name = f"{destination_folder}/element_summary_{table}_{team_id}.json"
BlobName(folder, table, team_id) ==
    folder \o "/element_summary_" \o table \o "_" \o ToString(team_id)
           \o ".json"

\* variant: the records are appended to the content the object has
SinkPutAppend(s, name, data) ==
    [n \in DOMAIN s \cup {name} |->
        IF n = name
        THEN (IF name \in DOMAIN s THEN s[name] ELSE <<>>) \o data
        ELSE s[n]]

\* upload_json_to_gcs: the object's content becomes the given records
SinkPut(s, name, data) ==
    [n \in DOMAIN s \cup {name} |-> IF n = name THEN data ELSE s[n]]

Jobs == 1..Len(jobPc)
Running == { j \in Jobs : jobPc[j] \in {"snapshot", "upload"} }
jobVars == <<jobPc, jobIds, jobWarn, jobData, jobNext, jobWrote, jobLog>>

\* executor.submit(fetch_and_upload_team_summary, ...) for every team id
Submit(teams) ==
    /\ team_ids' = teams
    /\ jobPc' = [j \in 1..Len(teams) |-> "queued"]
    /\ jobIds' = [j \in 1..Len(teams) |-> <<>>]
    /\ jobWarn' = [j \in 1..Len(teams) |-> <<>>]
    /\ jobData' = [j \in 1..Len(teams) |-> <<>>]
    /\ jobNext' = [j \in 1..Len(teams) |-> 1]
    /\ jobWrote' = [j \in 1..Len(teams) |-> <<>>]
    /\ jobLog' = [j \in 1..Len(teams) |-> {}]

\* variant: max_workers is taken from the request as it is
\* (max_workers = data.get('max_workers', 5) of app/routes.py)
validate_max_workers_absent(v) == <<>>

\* ElementSummaryRequest.validate_max_workers: <<>> when v is accepted,
\* <<message>> of the ValueError it raises otherwise
validate_max_workers(v) ==
    IF v < 1 THEN << "max_workers must be at least 1" >>
    ELSE IF v > 20 THEN << "max_workers cannot exceed 100" >>
    ELSE <<>>

\* the except clauses of the endpoint: "except ValueError" answers 400,
\* "except Exception" answers 500, both with str(e) as the message
ErrorResponse(exc, msg) ==
    [status |-> IF exc \in ValueErrors THEN 400 ELSE 500, message |-> msg]

\* return jsonify({"status": "success"}), 200
SuccessResponse == [status |-> 200, message |-> "success"]

\* fetch_and_upload_multiple_teams(team_ids=teams, ...): the constructor of
\* ThreadPoolExecutor raises ValueError for max_workers <= 0, otherwise one
\* job per entry is submitted
EnterPool(teams) ==
    IF max_workers <= 0
    THEN /\ runPc' = "raised"
         /\ response' = << ErrorResponse("ValueError",
                              "max_workers must be greater than 0") >>
         /\ UNCHANGED <<team_ids, jobVars>>
    ELSE /\ Submit(teams)
         /\ runPc' = "pool"
         /\ UNCHANGED response

\* RunStart as the superseded endpoint of app/routes.py has it: team_ids is
\* parsed with list_of_ints(data.get('team_ids')), which raises when the key
\* is absent, max_workers is not validated, and every exception is answered
\* with 500
RunStartRoutes ==
    /\ runPc = "idle"
    /\ IF team_ids = <<>>
       THEN /\ runPc' = "raised"
            /\ response' = << [status |-> 500,
                               message |-> "'NoneType' object has no attribute 'split'"] >>
            /\ UNCHANGED <<team_ids, jobVars>>
       ELSE EnterPool(team_ids)
    /\ UNCHANGED cacheVars
    /\ UNCHANGED <<element_ids, max_workers, sink, loads,
                   warehouse,
                   sinkFaults>>
    /\ UNCHANGED <<fetchVars, pureVars>>

\* the endpoint receives the request: ElementSummaryRequest(**json) runs the
\* validators, whose ValueError is answered with 400; otherwise
\* fetch_and_upload_element_summary starts: "if not team_ids" asks the
\* snapshot cache for the team list, otherwise the jobs are submitted
RunStart ==
    /\ runPc = "idle"
    /\ IF validate_max_workers(max_workers) # <<>>
       THEN /\ runPc' = "rejected"
            /\ response' = << ErrorResponse("ValidationError",
                                 validate_max_workers(max_workers)[1]) >>
            /\ UNCHANGED <<team_ids, jobVars, cacheVars>>
       ELSE IF team_ids = <<>>
       THEN /\ CallSnapshot(0, FALSE)
            /\ runPc' = "resolve"
            /\ UNCHANGED <<team_ids, jobVars, response>>
       ELSE /\ EnterPool(team_ids)
            /\ UNCHANGED cacheVars
    /\ UNCHANGED <<element_ids, max_workers, sink, loads,
                   warehouse,
                   sinkFaults>>
    /\ UNCHANGED <<fetchVars, pureVars>>

\* team_ids = [t['id'] for t in bootstrap_static_data['teams']]
RunResolved ==
    /\ runPc = "resolve"
    /\ snapPc[0] = "ret"
    /\ LET teams == snapRes[0][1]["teams"]
       IN  EnterPool([i \in 1..Len(teams) |-> teams[i].id])
    /\ SnapshotConsumed(0)
    /\ UNCHANGED <<element_ids, max_workers, sink, loads,
                   warehouse,
                   sinkFaults>>
    /\ UNCHANGED <<fetchVars, pureVars>>

\* RunResolveFailed with the failure swallowed: the run goes on to the
\* warehouse loads with no team
RunResolveSwallowed ==
    /\ runPc = "resolve"
    /\ snapPc[0] = "raised"
    /\ runPc' = "load"
    /\ SnapshotConsumed(0)
    /\ UNCHANGED <<team_ids, element_ids, max_workers, jobVars, sink, loads,
                   warehouse,
                   sinkFaults, response>>
    /\ UNCHANGED <<fetchVars, pureVars>>

\* the snapshot fetch of the main thread raised: the run does not catch it
\* and the endpoint answers by the class of the exception
RunResolveFailed ==
    /\ runPc = "resolve"
    /\ snapPc[0] = "raised"
    /\ runPc' = "raised"
    /\ response' = << ErrorResponse(snapExc[0], snapExc[0]) >>
    /\ SnapshotConsumed(0)
    /\ UNCHANGED <<team_ids, element_ids, max_workers, jobVars, sink, loads,
                   warehouse,
                   sinkFaults>>
    /\ UNCHANGED <<fetchVars, pureVars>>

\* variant: a thread is started for every queued job, whatever max_workers
JobStartUnbounded(j) ==
    /\ runPc = "pool"
    /\ j \in Jobs
    /\ jobPc[j] = "queued"
    /\ CallSnapshot(j, FALSE)
    /\ jobPc' = [jobPc EXCEPT ![j] = "snapshot"]
    /\ UNCHANGED <<jobIds, jobWarn, jobData, jobNext, jobWrote, jobLog>>
    /\ UNCHANGED <<runPc, team_ids, element_ids, max_workers, sink, loads,
                   warehouse,
                   sinkFaults, response>>
    /\ UNCHANGED <<fetchVars, pureVars>>

\* a pool thread takes the oldest queued job (at most max_workers threads)
\* and enters get_element_summary_for_teams, which asks the snapshot cache
JobStart(j) ==
    /\ runPc = "pool"
    /\ j \in Jobs
    /\ jobPc[j] = "queued"
    /\ \A i \in 1..(j - 1) : jobPc[i] # "queued"
    /\ Cardinality(Running) < max_workers
    /\ CallSnapshot(j, FALSE)
    /\ jobPc' = [jobPc EXCEPT ![j] = "snapshot"]
    /\ UNCHANGED <<jobIds, jobWarn, jobData, jobNext, jobWrote, jobLog>>
    /\ UNCHANGED <<runPc, team_ids, element_ids, max_workers, sink, loads,
                   warehouse,
                   sinkFaults, response>>
    /\ UNCHANGED <<fetchVars, pureVars>>

\* the handler "except Exception as exc: logging.error(...)" of the team job
JobCaught(j) ==
    /\ jobLog' = [jobLog EXCEPT ![j] = @ \cup {"Error processing team"}]
    /\ jobPc' = [jobPc EXCEPT ![j] = "done"]

\* the snapshot lookup of job j raised
JobSnapshotFailed(j) ==
    /\ runPc = "pool"
    /\ j \in Jobs
    /\ jobPc[j] = "snapshot"
    /\ snapPc[j] = "raised"
    /\ JobCaught(j)
    /\ SnapshotConsumed(j)
    /\ UNCHANGED <<jobIds, jobWarn, jobData, jobNext, jobWrote>>
    /\ UNCHANGED <<runPc, team_ids, element_ids, max_workers, sink, loads,
                   warehouse,
                   sinkFaults, response>>
    /\ UNCHANGED <<fetchVars, pureVars>>

\* answers the per-player endpoint gives during a run
RunAnswers ==
    { a \in PlayerAnswers :
        a.exc = <<>> /\ (a.status = 200 => a.json \in {BodyFull, BodyPartial}) }

\* the first index k >= from of TableOrder whose table is not empty ("if
\* table_data" of the upload loop), or 0 when the loop has nothing left
NextTable(data, from) ==
    LET ks == { k \in from..Len(TableOrder) : data[TableOrder[k]] # <<>> }
    IN  IF ks = {} THEN 0 ELSE CHOOSE k \in ks : \A m \in ks : k <= m

\* job j got the snapshot: get_element_summary_for_teams selects the players
\* of the team, logs the warning about requested elements outside it and
\* runs ElementSummaryFetcher(player_ids).run(), the requests being answered
\* by ans; then fetch_and_upload_team_summary tests "if not data" and enters
\* the upload loop
JobFetch(j, ans) ==
    /\ runPc = "pool"
    /\ j \in Jobs
    /\ jobPc[j] = "snapshot"
    /\ snapPc[j] = "ret"
    /\ LET sel == SelectPlayers(snapRes[j][1], << team_ids[j] >>, element_ids)
           rs == [i \in 1..Len(sel.ids) |-> fetch_player(sel.ids[i], ans[i])]
           data == flatten_results(rs)
       IN  /\ DOMAIN ans = 1..Len(sel.ids)
           /\ jobIds' = [jobIds EXCEPT ![j] = sel.ids]
           /\ jobWarn' = [jobWarn EXCEPT ![j] = sel.warned]
           /\ jobData' = [jobData EXCEPT ![j] = << data >>]
           /\ IF DOMAIN data = {}
              THEN /\ jobLog' = [jobLog EXCEPT
                                   ![j] = @ \cup {"No data found"}]
                   /\ jobPc' = [jobPc EXCEPT ![j] = "done"]
                   /\ UNCHANGED jobNext
              ELSE /\ jobNext' = [jobNext EXCEPT ![j] = NextTable(data, 1)]
                   /\ jobPc' = [jobPc EXCEPT ![j] =
                         IF NextTable(data, 1) = 0 THEN "done" ELSE "upload"]
                   /\ UNCHANGED jobLog
    /\ SnapshotConsumed(j)
    /\ UNCHANGED jobWrote
    /\ UNCHANGED <<runPc, team_ids, element_ids, max_workers, sink, loads,
                   warehouse,
                   sinkFaults, response>>
    /\ UNCHANGED <<fetchVars, pureVars>>

\* the next iteration of "for table_name, table_data in data.items()" that
\* has a non-empty table: upload_json_to_gcs stores it (ok) or raises (~ok),
\* which ends the job in its exception handler
JobUpload(j, ok) ==
    /\ runPc = "pool"
    /\ j \in Jobs
    /\ jobPc[j] = "upload"
    /\ LET table_name == TableOrder[jobNext[j]]
           table_data == jobData[j][1][table_name]
           next == NextTable(jobData[j][1], jobNext[j] + 1)
       IN  IF ok
           THEN /\ sink' = SinkPut(sink,
                               BlobName(destination_folder, table_name,
                                        team_ids[j]),
                               table_data)
                /\ jobWrote' = [jobWrote EXCEPT ![j] = Append(@, table_name)]
                /\ jobNext' = [jobNext EXCEPT ![j] = next]
                /\ jobPc' = [jobPc EXCEPT
                               ![j] = IF next = 0 THEN "done" ELSE "upload"]
                /\ UNCHANGED <<jobLog, sinkFaults>>
           ELSE /\ sinkFaults < MaxSinkFaults
                /\ sinkFaults' = sinkFaults + 1
                /\ JobCaught(j)
                /\ UNCHANGED <<sink, jobWrote, jobNext>>
    /\ UNCHANGED <<jobIds, jobWarn, jobData>>
    /\ UNCHANGED <<runPc, team_ids, element_ids, max_workers, loads, warehouse,
                   response>>
    /\ UNCHANGED <<cacheVars, fetchVars, pureVars>>

\* RunJoin that does not wait for the jobs (executor.shutdown(wait=False))
RunJoinNoWait ==
    /\ runPc = "pool"
    /\ runPc' = "load"
    /\ UNCHANGED <<team_ids, element_ids, max_workers, jobVars, sink, loads,
                   warehouse,
                   sinkFaults, response>>
    /\ UNCHANGED <<cacheVars, fetchVars, pureVars>>

\* RunJoin that stops waiting as soon as one job has failed
RunJoinOnFirstFailure ==
    /\ runPc = "pool"
    /\ \/ \A j \in Jobs : jobPc[j] = "done"
       \/ \E j \in Jobs : /\ jobPc[j] = "done"
                          /\ "Error processing team" \in jobLog[j]
    /\ runPc' = "load"
    /\ UNCHANGED <<team_ids, element_ids, max_workers, jobVars, sink, loads,
                   warehouse,
                   sinkFaults, response>>
    /\ UNCHANGED <<cacheVars, fetchVars, pureVars>>

\* the "with ThreadPoolExecutor" block ends once every job has finished
RunJoin ==
    /\ runPc = "pool"
    /\ \A j \in Jobs : jobPc[j] = "done"
    /\ runPc' = "load"
    /\ UNCHANGED <<team_ids, element_ids, max_workers, jobVars, sink, loads,
                   warehouse,
                   sinkFaults, response>>
    /\ UNCHANGED <<cacheVars, fetchVars, pureVars>>

\* the object names a URI with one wildcard selects: the names that start
\* with the text before the "*" and end with the text after it
GlobMatch(name, before, after) ==
    /\ Len(name) >= Len(before) + Len(after)
    /\ SubSeq(name, 1, Len(before)) = before
    /\ SubSeq(name, Len(name) - Len(after) + 1, Len(name)) = after

\* bucket_uri = f"gs://{bucket_name}/{source_folder}/{table_id}_*.json":
\* the objects of the bucket the load job of table_id reads
MatchedObjects(s, source_folder, table_id) ==
    { name \in DOMAIN s :
        GlobMatch(name, source_folder \o "/" \o table_id \o "_", ".json") }

\* WRITE_TRUNCATE: the table holds what its last load job read
WarehouseLoad(w, table_id, names) ==
    [t \in DOMAIN w \cup {table_id} |-> IF t = table_id THEN names ELSE w[t]]

\* upload_element_summary_from_gcs_to_bigquery for the next table of the
\* loop "for table_id in tables": the load job succeeds (ok) or raises (~ok),
\* which nothing in the run catches; after the last table the endpoint
\* answers 200
RunLoad(ok) ==
    /\ runPc = "load"
    /\ loads' = Append(loads, LoadTables[Len(loads) + 1])
    /\ warehouse' =
          IF ok
          THEN WarehouseLoad(warehouse, LoadTables[Len(loads) + 1],
                   MatchedObjects(sink, destination_folder,
                                  LoadTables[Len(loads) + 1]))
          ELSE warehouse
    /\ IF ~ok
       THEN /\ runPc' = "load_raised"
            /\ response' = << ErrorResponse("GoogleAPICallError",
                                 "load job failed") >>
       ELSE IF Len(loads) + 1 = Len(LoadTables)
       THEN /\ runPc' = "done"
            /\ response' = << SuccessResponse >>
       ELSE /\ runPc' = "load"
            /\ UNCHANGED response
    /\ UNCHANGED <<team_ids, element_ids, max_workers, jobVars, sink,
                   sinkFaults>>
    /\ UNCHANGED <<cacheVars, fetchVars, pureVars>>

\* --------------------------------------------- specification: one run
\* team_ids arguments: None or empty, or a list of distinct team identifiers
\* (team 3 is not in the snapshot) in ascending order, or a list that names
\* a team twice
TeamIdLists ==
    { s \in SeqsUpTo({1, 2, 3}, MaxJobs) :
        \A i \in 1..(Len(s) - 1) : s[i] < s[i + 1] }
    \cup { s \in {<<1, 1>>} : Len(s) <= MaxJobs }
\* element_ids arguments of a run
RunFilters == { <<>>, << <<2, 3, 99>> >> }
\* answers of the roster source during a run
RunSnapshotAnswers ==
    { a \in SnapshotAnswers : a.status \in {200, 503} /\ a.json # PayloadB }

\* what an earlier run left in the bucket: objects of team 1, written when
\* player 9 was on its roster
PriorSink ==
    LET old == << [element |-> 9, data |-> [round |-> 0]] >>
    IN  [name \in { BlobName(destination_folder, "fixtures", 1),
                    BlobName(destination_folder, "history", 1) } |-> old]

\* the bucket at the start of a run: empty, or, for the runs without an
\* element filter, as the earlier run left it
InitialSinks(filter) == IF filter = <<>> THEN {<<>>, PriorSink} ELSE {<<>>}

\* max_workers values of a request: the accepted ones up to MaxWorkers, and
\* one value on each side of the accepted range
RequestedWorkers == (1..MaxWorkers) \cup {0, 21}

InitRun ==
    /\ runPc = "idle"
    /\ team_ids \in TeamIdLists
    /\ element_ids \in RunFilters
    /\ max_workers \in RequestedWorkers
    /\ jobPc = <<>> /\ jobIds = <<>> /\ jobWarn = <<>> /\ jobData = <<>>
    /\ jobNext = <<>> /\ jobWrote = <<>> /\ jobLog = <<>>
    /\ sink \in InitialSinks(element_ids)
    /\ loads = <<>>
    /\ warehouse = <<>>
    /\ sinkFaults = 0
    /\ response = <<>>
    /\ \E c \in {<<>>, << extract_tables(PayloadA) >>} : InitCacheVars(c)
    /\ InitFetchOff /\ InitPureOff

NextRun ==
    \/ RunStart
    \/ RunResolved
    \/ RunResolveFailed
    \/ \E j \in 1..MaxJobs : JobStart(j)
    \/ \E t \in 0..MaxJobs : CacheLookup(t)
    \/ \E t \in 0..MaxJobs, a \in RunSnapshotAnswers : FetchSettle(t, a)
    \/ \E j \in 1..MaxJobs : JobSnapshotFailed(j)
    \/ \E j \in 1..MaxJobs, n \in 0..MaxElements :
          \E ans \in [1..n -> RunAnswers] : JobFetch(j, ans)
    \/ \E j \in 1..MaxJobs, ok \in BOOLEAN : JobUpload(j, ok)
    \/ RunJoin
    \/ \E ok \in BOOLEAN : RunLoad(ok)

SpecRun == InitRun /\ [][NextRun]_vars

\* ------------------------------ specification: concurrent get_snapshot calls
Callers == 1..2

\* caller t starts fetch_bootstrap_static(force)
GetSnapshot(t, force) ==
    /\ calls[t] < MaxCalls
    /\ CallSnapshot(t, force)
    /\ UNCHANGED <<fetchVars, pureVars, runVars>>

\* caller t takes the returned snapshot or the raised error
GetSnapshotEnd(t) ==
    /\ snapPc[t] \in {"ret", "raised"}
    /\ SnapshotConsumed(t)
    /\ UNCHANGED <<fetchVars, pureVars, runVars>>

InitCache ==
    /\ \E c \in {<<>>, << extract_tables(PayloadA) >>} : InitCacheVars(c)
    /\ InitFetchOff /\ InitPureOff /\ InitRunOff

NextCache ==
    \/ \E t \in Callers, force \in BOOLEAN : GetSnapshot(t, force)
    \/ \E t \in Callers : CacheClear(t)
    \/ \E t \in Callers : CacheLookup(t)
    \/ \E t \in Callers, a \in SnapshotAnswers : FetchSettle(t, a)
    \/ \E t \in Callers : GetSnapshotEnd(t)

SpecCache == InitCache /\ [][NextCache]_vars

\* ================================================================= claims
KindNames == {"fixtures", "history", "history_past"}
AllTables == <<"fixtures", "history", "history_past", "errors">>

\* the answer made the fetch of a player fail
Failing(a) == a.exc # <<>> \/ a.status # 200

\* the set of entries of a list
Elems(list) == { list[i] : i \in 1..Len(list) }

\* the number of entries of list equal to x
Occurrences(list, x) == Cardinality({ i \in 1..Len(list) : list[i] = x })

\* the tables of AllTables, in order from index from, that are not empty
RECURSIVE NonEmptyTablesFrom(_, _)
NonEmptyTablesFrom(data, from) ==
    IF from > Len(AllTables) THEN <<>>
    ELSE IF data[AllTables[from]] # <<>>
         THEN << AllTables[from] >> \o NonEmptyTablesFrom(data, from + 1)
         ELSE NonEmptyTablesFrom(data, from + 1)

IsPrefix(s, t) == Len(s) <= Len(t) /\ \A i \in 1..Len(s) : s[i] = t[i]

\* no object of the bucket has been written in this run: the bucket is as the
\* earlier runs left it
SinkUntouched == sink \in {<<>>, PriorSink}

\* threads with an upstream metadata request in flight
InFlight == { t \in Threads : snapPc[t] = "fetching" }

\* the snapshot fetch made by thread t in this run failed
SnapshotFetchFailed(t) == snapExc[t] # ""

\* the upstream metadata requests issued by the threads of S
RECURSIVE TotalFetches(_)
TotalFetches(S) ==
    IF S = {} THEN 0
    ELSE LET t == CHOOSE x \in S : TRUE
         IN  snapFetches[t] + TotalFetches(S \ {t})

\* C1: callers of get_snapshot(False) that race on a cold cache (the team
\* jobs of process_many) never have more than one upstream metadata fetch in
\* flight, perform one fetch in total (when none fails) and all receive the
\* same snapshot
C1_SingleFlight ==
    /\ Cardinality(InFlight) <= 1
    /\ (\A t \in Threads : ~SnapshotFetchFailed(t))
          => TotalFetches(Threads) <= 1
    /\ \A t, u \in Threads :
          (snapRes[t] # <<>> /\ snapRes[u] # <<>>) => snapRes[t] = snapRes[u]

\* the records the answers of the indices in S hold for a kind, counted
RECURSIVE RawCount(_, _)
RawCount(S, kind) ==
    IF S = {} THEN 0
    ELSE LET i == CHOOSE x \in S : TRUE
         IN  Len(Get(responses[i][1].json, kind)) + RawCount(S \ {i}, kind)

\* C2: the batch of fetch_many accounts for every entry of player_ids exactly
\* once: a failed player gives one errors entry and no record, a successful
\* player gives no errors entry and exactly the records of its own answer;
\* the empty list gives four empty sequences
C2_BatchAccountsForEveryPlayer ==
    fmPc = "done" =>
        LET b == batch[1]
            n == Len(player_ids)
            failed == { i \in 1..n : Failing(responses[i][1]) }
            ok == (1..n) \ failed
        IN  /\ Len(b.errors) = Cardinality(failed)
            /\ \A p \in PlayerPool :
                  Cardinality({ k \in 1..Len(b.errors) :
                                  b.errors[k].player_id = p })
                  = Cardinality({ i \in failed : player_ids[i] = p })
            /\ \A kind \in KindNames :
                  /\ Len(b[kind]) = RawCount(ok, kind)
                  /\ \A p \in PlayerPool :
                        Cardinality({ k \in 1..Len(b[kind]) :
                                        b[kind][k].element = p })
                        = RawCount({ i \in ok : player_ids[i] = p }, kind)
                  /\ \A k \in 1..Len(b[kind]) :
                        \E i \in ok :
                            /\ player_ids[i] = b[kind][k].element
                            /\ b[kind][k].data
                                 \in Elems(Get(responses[i][1].json, kind))
            /\ (n = 0 => b = EmptyBatch)

\* a batch built from a failed and a successful player
C2_Witness ==
    /\ fmPc = "done"
    /\ \E i, j \in 1..Len(player_ids) :
          /\ Failing(responses[i][1])
          /\ ~Failing(responses[j][1])
    /\ batch[1].errors # <<>>
    /\ batch[1].history # <<>>

\* C3: fetch_player never raises: for a non-success status, a transport
\* failure or a decoding failure it returns a Failure with the player id and
\* a diagnostic string, and the fan-out is never aborted
C3_FetchPlayerNeverRaises ==
    /\ fmPc # "raised"
    /\ \A i \in 1..Len(results) :
          (results[i] # <<>> /\ Failing(responses[i][1])) =>
              LET r == results[i][1]
                  a == responses[i][1]
              IN  /\ ~Raised(r)
                  /\ "error" \in DOMAIN r
                  /\ r.player_id = player_ids[i]
                  /\ r.error = IF a.exc # <<>> THEN a.exc[1]
                               ELSE "HTTP " \o ToString(a.status)

\* a fan-out that completed although one player's decoding failed, one got
\* a non-success status and one had a transport failure
C3_Witness ==
    /\ fmPc = "done"
    /\ \E i, j, k \in 1..Len(player_ids) :
          /\ responses[i][1].status = 200 /\ responses[i][1].exc # <<>>
          /\ responses[j][1].status = 404
          /\ responses[k][1].status = 0

\* process_many has returned
PoolReturned == runPc \in {"load", "done", "load_raised"}

\* job j ended in its exception handler
JobFailed(j) == "Error processing team" \in jobLog[j]

\* C4: a team job that fails is caught and logged, the other teams are
\* processed to completion (each uploads every non-empty table of its batch)
\* and process_many returns without raising
C4_TeamFailureIsolated ==
    /\ PoolReturned => \A j \in Jobs : jobPc[j] = "done"
    /\ \A j \in Jobs :
          (jobPc[j] = "done" /\ ~JobFailed(j)) =>
              /\ jobData[j] # <<>>
              /\ jobWrote[j] = NonEmptyTablesFrom(jobData[j][1], 1)
    /\ runPc = "raised" => Jobs = {}

\* process_many returned with one team failed on its snapshot lookup, one on
\* a sink write, or one failed while another team uploaded its tables
C4_Witness ==
    /\ PoolReturned
    /\ \E i, j \in Jobs :
          /\ JobFailed(i)
          /\ ~JobFailed(j)
          /\ jobWrote[j] # <<>>

\* the data tables, in order from index from, that are not empty
RECURSIVE NonEmptyDataFrom(_, _)
NonEmptyDataFrom(data, from) ==
    IF from > 3 THEN <<>>
    ELSE IF data[AllTables[from]] # <<>>
         THEN << AllTables[from] >> \o NonEmptyDataFrom(data, from + 1)
         ELSE NonEmptyDataFrom(data, from + 1)

\* C5 as claimed: a team job writes one artifact per non-empty sequence
\* among fixtures, history and history_past and never writes the errors
\* sequence to the sink
C5_ErrorsNeverWritten ==
    \A j \in Jobs :
        /\ ~InList("errors", jobWrote[j])
        /\ BlobName(destination_folder, "errors", team_ids[j])
              \notin DOMAIN sink
        /\ (jobPc[j] = "done" /\ ~JobFailed(j) /\ jobData[j] # <<>>)
              => jobWrote[j] = NonEmptyDataFrom(jobData[j][1], 1)

\* C5 amended: a team job uploads, in the order fixtures, history,
\* history_past, errors, one artifact for each non-empty sequence of its
\* batch, the errors sequence included, each under its own name, until the
\* loop ends or an upload raises; an empty sequence is never written
C5_OneArtifactPerNonEmptyTable ==
    \A j \in Jobs :
        jobData[j] # <<>> =>
            LET expected == NonEmptyTablesFrom(jobData[j][1], 1)
            IN  /\ IsPrefix(jobWrote[j], expected)
                /\ (jobPc[j] = "done" /\ ~JobFailed(j))
                      => jobWrote[j] = expected
                /\ \A k \in 1..Len(jobWrote[j]) :
                      BlobName(destination_folder, jobWrote[j][k],
                               team_ids[j]) \in DOMAIN sink

\* a finished job whose batch had errors and data, with an empty sequence
C5_Witness ==
    \E j \in Jobs :
        /\ jobPc[j] = "done"
        /\ ~JobFailed(j)
        /\ jobData[j] # <<>>
        /\ jobData[j][1].errors # <<>>
        /\ jobData[j][1].history # <<>>
        /\ jobData[j][1].fixtures = <<>>
        /\ jobWrote[j] = <<"history", "errors">>

\* C6 as claimed: in every run, a failed snapshot fetch aborts the whole
\* run, so process_many never returns and no warehouse load is triggered
C6_SnapshotFailureAbortsRun ==
    (\E t \in Threads : SnapshotFetchFailed(t)) =>
        /\ ~PoolReturned
        /\ loads = <<>>

\* C6 amended: a snapshot fetch that fails while the team list is being
\* resolved (team_ids empty or absent) aborts the run before any team job,
\* sink write or warehouse load; a snapshot fetch that fails inside a team
\* job (team_ids supplied) is caught by that job, which fetches no player
\* and writes nothing
C6_ResolveFailureAbortsRun ==
    /\ SnapshotFetchFailed(0) =>
          /\ runPc \in {"resolve", "raised"}
          /\ Jobs = {}
          /\ SinkUntouched
          /\ loads = <<>>
    /\ \A j \in Jobs :
          SnapshotFetchFailed(j) =>
              /\ jobPc[j] \in {"snapshot", "done"}
              /\ jobIds[j] = <<>> /\ jobData[j] = <<>> /\ jobWrote[j] = <<>>
              /\ jobPc[j] = "done" => JobFailed(j)

\* a run aborted by a 503 answer to the team-list resolution on a cold cache
C6_Witness ==
    /\ runPc = "raised"
    /\ cache = <<>>
    /\ "Service Unavailable (503)" \in snapLog[0]

\* C7: with an element filter the team job fetches exactly the requested ids
\* that the snapshot puts on the team and warns about exactly the requested
\* ids that it does not; roster {1,2,3} with [2,3,99] fetches 2, 3 and
\* reports 99
C7_FilterIntersectsRoster ==
    (pureIn # <<>> /\ pureOut.selected # <<>> /\ pureIn[1].element_ids # <<>>)
    =>  LET els == pureIn[1].snapshot.elements
            req == pureIn[1].element_ids[1]
            sel == pureOut.selected[1]
            OnTeam(e) == \E i \in 1..Len(els) :
                             els[i].id = e /\ els[i].team = pureIn[1].team_id
            roster == { els[i].id : i \in { n \in 1..Len(els) :
                                      els[n].team = pureIn[1].team_id } }
        IN  /\ Elems(sel.ids) = { e \in Elems(req) : OnTeam(e) }
            /\ Elems(sel.warned) = { e \in Elems(req) : ~OnTeam(e) }
            /\ \A e \in Elems(req) :
                  Occurrences(sel.ids, e) + Occurrences(sel.warned, e)
                  = Occurrences(req, e)
            /\ (roster = {1, 2, 3} /\ req = <<2, 3, 99>>)
                  => (sel.ids = <<2, 3>> /\ sel.warned = <<99>>)

\* the example: roster {1,2,3}, element_ids [2,3,99]
C7_Witness ==
    /\ pureIn # <<>>
    /\ pureOut.selected # <<>>
    /\ pureIn[1].element_ids = << <<2, 3, 99>> >>
    /\ \A i \in 1..Len(pureIn[1].snapshot.elements) :
          pureIn[1].snapshot.elements[i].team = pureIn[1].team_id
    /\ Len(pureIn[1].snapshot.elements) = 3
    /\ pureOut.selected[1].ids = <<2, 3>>
    /\ pureOut.selected[1].warned = <<99>>

\* C8: players_for_team returns exactly the ids of the players whose team
\* field equals t, in snapshot order, and raises iff there is none
C8_RosterIsPureFilter ==
    (pureIn # <<>> /\ pureOut.roster # <<>>) =>
        LET els == pureIn[1].snapshot.elements
            out == pureOut.roster[1]
            idx == { i \in 1..Len(els) : els[i].team = pureIn[1].team_id }
            Nth(k) == CHOOSE i \in idx :
                          Cardinality({ m \in idx : m < i }) = k - 1
        IN  /\ out.raised <=> idx = {}
            /\ ~out.raised =>
                  /\ Len(out.value) = Cardinality(idx)
                  /\ \A k \in 1..Len(out.value) :
                        out.value[k] = els[Nth(k)].id

\* a roster of two players picked around a player of another team, and a
\* team without players
C8_Witness ==
    /\ pureIn # <<>>
    /\ pureOut.roster # <<>>
    /\ \/ /\ Len(pureOut.roster[1].value) = 2
          /\ Len(pureIn[1].snapshot.elements) = 3
          /\ pureIn[1].snapshot.elements[2].team # pureIn[1].team_id
       \/ /\ pureOut.roster[1].raised
          /\ pureIn[1].snapshot.elements # <<>>

\* C9: on a successful answer every record of fixtures, history and
\* history_past is tagged with the player id, so every record of every data
\* sequence of the batch carries the id of the player it was fetched for
C9_EveryRecordTagged ==
    /\ \A i \in 1..Len(results) :
          (results[i] # <<>> /\ ~Failing(responses[i][1])) =>
              \A kind \in KindNames :
                  LET raw == Get(responses[i][1].json, kind)
                      recs == results[i][1][kind]
                  IN  /\ Len(recs) = Len(raw)
                      /\ \A k \in 1..Len(recs) :
                            /\ DOMAIN recs[k] = {"element", "data"}
                            /\ recs[k].element = player_ids[i]
                            /\ recs[k].data = raw[k]
    /\ fmPc = "done" =>
          \A kind \in KindNames :
              \A k \in 1..Len(batch[1][kind]) :
                  /\ "element" \in DOMAIN batch[1][kind][k]
                  /\ \E i \in 1..Len(player_ids) :
                        /\ ~Failing(responses[i][1])
                        /\ batch[1][kind][k].element = player_ids[i]

\* a batch holding records of all three kinds for two different players
C9_Witness ==
    /\ fmPc = "done"
    /\ \A kind \in KindNames : batch[1][kind] # <<>>
    /\ \E k, m \in 1..Len(batch[1].history) :
          batch[1].history[k].element # batch[1].history[m].element

\* C10: get_snapshot(True) performs exactly one upstream fetch, clears the
\* cache exactly once and returns the result of its own fetch, whatever the
\* other callers do meanwhile
C10_ForceRefreshFetchesOnce ==
    \A t \in Callers :
        (snapPc[t] = "ret" /\ snapForce[t]) =>
            /\ snapFetches[t] = 1
            /\ snapClears[t] = 1
            /\ snapRes[t] = snapGot[t]

\* C11: once a call has succeeded the snapshot stays retained: the cache goes
\* cold only through the cache_clear of a force_refresh call, and a call
\* without force_refresh that finds the cache warm returns the retained
\* snapshot with no upstream request and no cache clear
C11_WarmCacheServesCalls ==
    [][ /\ (cache # <<>> /\ cache' = <<>>) =>
             \E t \in Callers :
                 /\ snapForce[t] /\ snapPc[t] = "clear"
                 /\ snapClears'[t] = snapClears[t] + 1
        /\ \A t \in Callers :
             (/\ snapPc[t] = "lookup" /\ ~snapForce[t] /\ cache # <<>>
              /\ snapPc'[t] # "lookup") =>
                 /\ snapPc'[t] = "ret"
                 /\ snapRes'[t] = cache
                 /\ cache' = cache
                 /\ snapFetches'[t] = 0
                 /\ snapClears'[t] = 0 ]_vars

\* a caller's fetch succeeded and another caller's later call without
\* force_refresh returned that snapshot from the cache
C11_Witness ==
    \E t, u \in Callers :
        /\ t # u
        /\ snapGot[u] # <<>> /\ snapPc[u] = "idle"
        /\ snapPc[t] = "ret" /\ ~snapForce[t] /\ calls[t] = MaxCalls
        /\ snapFetches[t] = 0 /\ snapClears[t] = 0
        /\ snapRes[t] = snapGot[u] /\ cache = snapGot[u]

\* C17: for every upstream outcome other than a success response (any status
\* but 200, or a transport failure) the call raises a network error after its
\* single request, logs the service-unavailable message exactly when the
\* status is 503, and stores nothing in the cache
C17_FailureIsNetworkError ==
    [][ \A t \in Callers, a \in SnapshotAnswers :
           (a.status # 200 /\ FetchSettle(t, a)) =>
               /\ snapPc'[t] = "raised"
               /\ snapExc'[t] \in RequestExceptions
               /\ snapFetches'[t] = 1
               /\ ("Service Unavailable (503)" \in snapLog'[t]) <=> (a.status = 503)
               /\ cache' = cache ]_vars

\* C20: the snapshot extract_tables builds has exactly the configured
\* collection names as keys; each holds the payload's value under that name,
\* or the empty sequence when the payload lacks it; every other top-level key
\* of the payload is dropped
C20_SnapshotHasConfiguredTables ==
    (pureIn # <<>> /\ pureOut.tables # <<>>) =>
        LET payload == pureIn[1].payload
            snapshot == pureOut.tables[1]
        IN  /\ DOMAIN snapshot =
                   {"elements", "teams", "events", "element_types"}
            /\ \A k \in DOMAIN snapshot :
                   /\ k \in DOMAIN payload => snapshot[k] = payload[k]
                   /\ k \notin DOMAIN payload => snapshot[k] = <<>>

\* a payload lacking "events" and carrying an extra key was extracted
C20_Witness ==
    /\ pureIn # <<>>
    /\ pureOut.tables # <<>>
    /\ "events" \notin DOMAIN pureIn[1].payload
    /\ "game_settings" \in DOMAIN pureIn[1].payload
    /\ "elements" \in DOMAIN pureIn[1].payload
    /\ pureOut.tables[1].events = <<>>
    /\ pureOut.tables[1].elements = pureIn[1].payload.elements
    /\ Len(pureOut.tables[1].elements) = 3

\* C19: fetch_many issues one request per entry of player_ids, all of them
\* pending together (any pending request may settle next), returns only after
\* every request has settled, and, every request settling eventually, it
\* eventually returns the batch
C19_GatherWaitsForAll ==
    /\ [](fmPc \in {"gather", "done", "raised"} =>
            /\ Len(responses) = Len(player_ids)
            /\ Len(results) = Len(player_ids))
    /\ [](fmPc = "gather" =>
            \A i \in 1..Len(player_ids) :
                responses[i] = <<>> =>
                    ENABLED (\E a \in PlayerAnswers : PlayerSettle(i, a)))
    /\ [](fmPc \in {"done", "raised"} =>
            \A i \in 1..Len(player_ids) :
                responses[i] # <<>> /\ results[i] # <<>>)
    /\ [](batch # <<>> => fmPc = "done")
    /\ <>(fmPc = "done" /\ batch # <<>>)

\* fetch_many returned the batch of a list of MaxPlayers entries whose
\* requests settled with a success, an unexpected status and an exception
C19_Witness ==
    /\ fmPc = "done"
    /\ batch # <<>>
    /\ Len(player_ids) = MaxPlayers
    /\ \A i \in 1..Len(player_ids) : responses[i] # <<>>
    /\ \E i, j, k \in 1..Len(player_ids) :
          /\ responses[i][1].status = 200 /\ responses[i][1].exc = <<>>
          /\ responses[j][1].status = 404
          /\ responses[k][1].exc # <<>>

\* C12: while the pool runs, the team jobs in progress never exceed
\* max_workers, there is one job per entry of team_ids, no job is started
\* twice, and when the pool has returned every job has run once
C12_PoolBoundedEachTeamOnce ==
    /\ Cardinality(Running) <= max_workers
    /\ runPc \in {"pool", "load", "load_raised", "done"} =>
           Len(jobPc) = Len(team_ids)
    /\ \A j \in Jobs : calls[j] <= 1 /\ (jobPc[j] = "queued" <=> calls[j] = 0)
    /\ \A t \in Threads \ (Jobs \cup {0}) : calls[t] = 0
    /\ PoolReturned => \A j \in Jobs : calls[j] = 1 /\ jobPc[j] = "done"

\* the pool is full: max_workers jobs are in progress and a job is waiting
C12_Witness ==
    /\ runPc = "pool"
    /\ Len(team_ids) = MaxJobs
    /\ Cardinality(Running) = max_workers
    /\ \E j \in Jobs : jobPc[j] = "queued"
    /\ \E j \in Jobs : jobPc[j] = "upload"

\* C13: the warehouse loader is triggered for the output kinds fixtures,
\* history and history_past in that order, never twice for a kind, only
\* after the pool has returned with every team job finished, and a run that
\* completes has triggered it for all three
C13_LoadsOncePerKindAfterPool ==
    /\ IsPrefix(loads, LoadTables)
    /\ loads # <<>> =>
           /\ runPc \in {"load", "load_raised", "done"}
           /\ \A j \in Jobs : jobPc[j] = "done"
    /\ runPc = "done" => loads = LoadTables
    /\ runPc = "load_raised" => loads # <<>>

\* a run over MaxJobs teams completed its three loads after jobs that
\* uploaded artifacts
C13_Witness ==
    /\ runPc = "done"
    /\ loads = <<"element_summary_fixtures", "element_summary_history",
                 "element_summary_history_past">>
    /\ Len(jobPc) = MaxJobs
    /\ \A j \in Jobs : jobWrote[j] # <<>>
    /\ DOMAIN sink # {}

\* C18: a team job whose batch has every sequence empty logs the "no data"
\* warning, ends without failing and writes nothing to the sink
C18_EmptyBatchWarnsAndSkips ==
    \A j \in Jobs :
        (/\ jobPc[j] = "done"
         /\ jobData[j] # <<>>
         /\ \A k \in 1..Len(TableOrder) : jobData[j][1][TableOrder[k]] = <<>>)
        =>  /\ "No data found" \in jobLog[j]
            /\ "Error processing team" \notin jobLog[j]
            /\ jobWrote[j] = <<>>

\* C14: a request whose team_ids is empty or absent is accepted: it is
\* refused only for its max_workers and fails only when the snapshot fetch
\* fails; otherwise the teams of the run are the identifiers of the
\* snapshot's teams collection, in order, with one team job for each and no
\* other, all of them run by the time the pool returns
C14_EmptyTeamListMeansAllTeams ==
    /\ (team_ids = <<>> /\ validate_max_workers(max_workers) = <<>>) =>
           /\ runPc # "rejected"
           /\ runPc = "raised" => SnapshotFetchFailed(0)
    /\ (calls[0] = 1 /\ runPc \in {"pool", "load", "load_raised", "done"}) =>
           LET teams == snapRes[0][1].teams
           IN  /\ team_ids = [i \in 1..Len(teams) |-> teams[i].id]
               /\ Len(jobPc) = Len(teams)
               /\ PoolReturned => \A j \in Jobs : calls[j] = 1

\* a request without team_ids completed: the two teams of the snapshot were
\* processed and the endpoint answered 200
C14_Witness ==
    /\ calls[0] = 1
    /\ runPc = "done"
    /\ team_ids = <<1, 2>>
    /\ Len(jobPc) = 2
    /\ calls[1] = 1 /\ calls[2] = 1
    /\ response # <<>> /\ response[1].status = 200

\* C15: a request whose max_workers is below 1 or above 20 is answered with
\* the client error of the validation and nothing else happens for it: no
\* snapshot call or fetch, no team job (so no player fetch), no sink write and
\* no warehouse load
C15_BadWorkersRejectedFirst ==
    (max_workers < 1 \/ max_workers > 20) =>
        /\ runPc \in {"idle", "rejected"}
        /\ \A t \in Threads : calls[t] = 0 /\ snapFetches[t] = 0
        /\ jobPc = <<>>
        /\ SinkUntouched
        /\ loads = <<>>
        /\ response # <<>> =>
               /\ runPc = "rejected"
               /\ response[1].status = 400
               /\ response[1].message # ""
        /\ runPc = "rejected" => response # <<>>

\* requests with max_workers 21 and a team list were rejected
C15_Witness ==
    /\ runPc = "rejected"
    /\ max_workers = 21
    /\ Len(team_ids) = MaxJobs
    /\ response # <<>> /\ response[1].status = 400
    /\ cache = <<>>

\* C16: every request gets exactly one answer, given when the run has ended:
\* 200 after a completed run, the client error 400 with a message when the
\* request failed validation, the server error 500 with a message when any
\* other exception escaped the run; artifacts uploaded before the error stay
\* in the sink
C16_OneOutcomePerRequest ==
    /\ response # <<>> <=>
           runPc \in {"rejected", "raised", "load_raised", "done"}
    /\ runPc = "done" => response[1].status = 200
    /\ runPc = "rejected" =>
           /\ validate_max_workers(max_workers) # <<>>
           /\ response[1].status = 400 /\ response[1].message # ""
    /\ runPc \in {"raised", "load_raised"} =>
           response[1].status = 500 /\ response[1].message # ""
    /\ runPc = "load_raised" =>
           \A j \in Jobs : \A k \in 1..Len(jobWrote[j]) :
               BlobName(destination_folder, jobWrote[j][k], team_ids[j])
                   \in DOMAIN sink

\* the tagged records of a kind that the answers of the entries i.. of
\* player_ids hold, entry after entry, each entry's in the order of its answer
RECURSIVE RecordsInListOrder(_, _)
RecordsInListOrder(kind, i) ==
    IF i > Len(player_ids) THEN <<>>
    ELSE LET raw == IF Failing(responses[i][1]) THEN <<>>
                    ELSE Get(responses[i][1].json, kind)
         IN  [k \in 1..Len(raw) |->
                 [element |-> player_ids[i], data |-> raw[k]]]
             \o RecordsInListOrder(kind, i + 1)

\* the failed entries i.. of player_ids, entry after entry
RECURSIVE FailedInListOrder(_)
FailedInListOrder(i) ==
    IF i > Len(player_ids) THEN <<>>
    ELSE (IF Failing(responses[i][1]) THEN << player_ids[i] >> ELSE <<>>)
         \o FailedInListOrder(i + 1)

\* C22: whatever the order in which the concurrent player fetches settle,
\* each sequence of the batch lists its records in the order of player_ids
\* and, within a player, in the order of the answer, and errors lists the
\* failed players in the order of player_ids: the batch is a function of
\* player_ids and the per-player answers alone
C22_BatchInListOrder ==
    fmPc = "done" =>
        /\ \A kind \in KindNames :
               batch[1][kind] = RecordsInListOrder(kind, 1)
        /\ [k \in 1..Len(batch[1].errors) |-> batch[1].errors[k].player_id]
               = FailedInListOrder(1)
        /\ DOMAIN batch[1] = KindNames \cup {"errors"}

\* a batch over the list <<2, 1, 2>>: the first entry failed and the other
\* two delivered history records, two of them for player 1
C22_Witness ==
    /\ fmPc = "done"
    /\ player_ids = <<2, 1, 2>>
    /\ Failing(responses[1][1])
    /\ ~Failing(responses[2][1]) /\ ~Failing(responses[3][1])
    /\ Len(batch[1].history) = 3
    /\ batch[1].history[1].element = 1
    /\ batch[1].history[2].element = 1
    /\ batch[1].history[3].element = 2
    /\ batch[1].errors[1].player_id = 2

\* C21: the load of table element_summary_K reads only objects a team job
\* wrote for kind K, named <folder>/element_summary_K_<team_id>.json; the
\* load of the history table reads no object written for history_past
C21_LoadSelectsOnlyItsKind ==
    \A k \in 1..Len(LoadTables) :
        LoadTables[k] \in DOMAIN warehouse =>
            \A name \in warehouse[LoadTables[k]] :
                \E team_id \in 1..3 :
                    name = BlobName(destination_folder, TableOrder[k], team_id)

\* the object names the jobs of this run have written
WrittenNames ==
    UNION { { BlobName(destination_folder, jobWrote[j][k], team_ids[j]) :
                k \in 1..Len(jobWrote[j]) } : j \in Jobs }

\* C23: a team job never deletes or empties an object of the sink; the
\* content of an object changes only when a job uploads a non-empty sequence
\* for its team and kind, and then it becomes exactly that sequence; an
\* object no job of this run wrote is the one an earlier run left, unchanged,
\* and every load that has run read each object of its kind that the sink
\* holds, the ones of earlier runs included
C23_JobsNeverDeleteObjects ==
    /\ [][ \A name \in DOMAIN sink' :
             (name \notin DOMAIN sink \/ sink'[name] # sink[name]) =>
                 \E j \in Jobs : \E k \in 1..Len(TableOrder) :
                     /\ jobPc[j] = "upload"
                     /\ name = BlobName(destination_folder, TableOrder[k],
                                        team_ids[j])
                     /\ sink'[name] = jobData[j][1][TableOrder[k]]
                     /\ sink'[name] # <<>> ]_vars
    /\ [][ \A name \in DOMAIN sink :
             name \in DOMAIN sink' /\ sink'[name] # <<>> ]_vars
    /\ [](\A name \in DOMAIN sink \ WrittenNames :
             name \in DOMAIN PriorSink /\ sink[name] = PriorSink[name])
    /\ [](\A k \in 1..Len(LoadTables) :
             LoadTables[k] \in DOMAIN warehouse =>
                 \A team_id \in 1..3 :
                     BlobName(destination_folder, TableOrder[k], team_id)
                         \in DOMAIN sink
                     => BlobName(destination_folder, TableOrder[k], team_id)
                            \in warehouse[LoadTables[k]])

\* a completed run over team 1 whose batch had no fixtures: the fixtures
\* object of the earlier run is still in the sink as it was and the fixtures
\* load read it, while the history object holds the new records only
C23_Witness ==
    /\ runPc = "done"
    /\ team_ids = <<1>>
    /\ jobData[1] # <<>>
    /\ jobData[1][1].fixtures = <<>>
    /\ jobData[1][1].history # <<>>
    /\ BlobName(destination_folder, "fixtures", 1) \in DOMAIN sink
    /\ sink[BlobName(destination_folder, "fixtures", 1)]
          = PriorSink[BlobName(destination_folder, "fixtures", 1)]
    /\ BlobName(destination_folder, "fixtures", 1)
          \in warehouse["element_summary_fixtures"]
    /\ sink[BlobName(destination_folder, "history", 1)]
          = jobData[1][1].history
    /\ jobWrote[1] = <<"history">>

====
